---- MODULE Spec2Model ----
(***************************************************************************)
(* Model of the `usdt` command line tool (usdt/src/main.rs): the two       *)
(* commands `buildgen` and `fmt`, the build script that `buildgen`         *)
(* generates (the body of the quote! block), and the call-site check the   *)
(* compile-error test exercises.                                           *)
(***************************************************************************)
EXTENDS Integers, Sequences, FiniteSets, TLC

VARIABLES
    \* ---- the provider file on disk, shared by the tool and the build script
    providerFile,
    \* ---- the usdt tool: one entry per run of the same command line
    args,         \* the parsed command line (Cmd), the same for every run
    buildrs0,     \* build.rs in the current directory before the tool ran
    tpc,          \* tpc[r]: position of run r inside main
    dfile,        \* dfile[r]: the parsed dtrace_parser::File
    tscript,      \* tscript[r]: the local `script`
    rustfmt,      \* rustfmt[r]: what happened to the rustfmt child of run r
    stdout,       \* stdout[r]: what run r printed, one entry per println!
    buildrs,      \* buildrs[r]: build.rs in the current directory of run r
    exitStatus,   \* exitStatus[r]: process exit status (-1 while running)
    \* ---- the generated build script (build.rs) run by cargo
    target,       \* target_os the script was compiled for
    script,       \* the values buildgen baked into the script
    pc,           \* position inside the script's main
    runs,         \* how many times cargo has started the script
    initiated,    \* build steps initiated in this run, in order
    failures,     \* build steps that failed in this run
    hchild,       \* the `dtrace -h` child process
    gchild,       \* the `dtrace -G` child process
    header,       \* OUT_DIR/<name>.h
    wrapperSrc,   \* OUT_DIR/<name>-wrapper.c
    cObject,      \* OUT_DIR/<name>-wrapper.o
    dObject,      \* OUT_DIR/<name>.o
    lib,          \* the static library, with what the archiver read
    cargoOut,     \* lines the script printed for cargo
    \* ---- a probe call site compiled against a provider
    signature,    \* the probe's declared host argument types
    thunk,        \* the types of the tuple the supplied thunk evaluates to
    verdict,      \* the result of checking the call site
    fired         \* whether the probe's instrumented code has executed

toolVars == <<args, buildrs0, tpc, dfile, tscript, rustfmt, stdout, buildrs, exitStatus>>
buildVars == <<target, script, pc, runs, initiated, failures, hchild, gchild,
               header, wrapperSrc, cObject, dObject, lib, cargoOut>>
checkVars == <<signature, thunk, verdict, fired>>
vars == <<providerFile, toolVars, buildVars, checkVars>>

----------------------------------------------------------------------------
(* Bounds *)

\* number of runs of the tool compared with each other
NumRuns == 2
\* number of times cargo starts the build script
MaxRuns == 2
\* largest number of arguments of a probe / elements of a thunk's tuple
MaxArgs == 2

----------------------------------------------------------------------------
(* The provider file and the dtrace_parser crate *)

\* DSL types of the closed table, and one that is not in it
DslTypes == {"uint8_t", "char*"}
UnknownDslType == "bogus_t"

Probe(name, types) == [name |-> name, args |-> types]

\* provider my_provider { probe my_probe(); };
TextZeroArg == <<Probe("my_probe", <<>>)>>
\* provider my_provider { probe my_probe(uint8_t); };
TextOneArg == <<Probe("my_probe", <<"uint8_t">>)>>
\* provider my_provider { probe my_probe(); probe other(uint8_t, char*); };
TextTwoProbes == <<Probe("my_probe", <<>>), Probe("other", <<"uint8_t", "char*">>)>>
\* two probes of the same name
TextDuplicate == <<Probe("a", <<>>), Probe("a", <<"uint8_t">>)>>
\* an argument type outside the table
TextUnknownType == <<Probe("my_probe", <<UnknownDslType>>)>>

ValidTexts == {TextZeroArg, TextOneArg, TextTwoProbes}
InvalidTexts == {TextDuplicate, TextUnknownType}

OnDisk(text) == [exists |-> TRUE, text |-> text]
NoFile == [exists |-> FALSE, text |-> <<>>]

\* Type Mapper: DSL type -> ABI type
AbiType(t) == IF t = "char*" THEN "const char*" ELSE t

\* dtrace_parser::File::from_file: a File, or an error
from_file(f) ==
    IF ~f.exists THEN [ok |-> FALSE, err |-> "Io", file |-> <<>>]
    ELSE IF \E i \in 1..Len(f.text) : \E j \in 1..Len(f.text[i].args) :
                f.text[i].args[j] \notin DslTypes
    THEN [ok |-> FALSE, err |-> "UnknownType", file |-> <<>>]
    ELSE IF \E i, j \in 1..Len(f.text) : i # j /\ f.text[i].name = f.text[j].name
    THEN [ok |-> FALSE, err |-> "DuplicateName", file |-> <<>>]
    ELSE [ok |-> TRUE, err |-> "", file |-> f.text]

\* the three generators
AbiParams(file) ==
    [i \in 1..Len(file) |->
        [symbol |-> <<"my_provider", file[i].name>>,
         params |-> [j \in 1..Len(file[i].args) |-> AbiType(file[i].args[j])]]]
to_rust_impl(file) == [artifact |-> "rust", probes |-> AbiParams(file)]
to_c_declaration(file) == [artifact |-> "decl", probes |-> AbiParams(file)]
to_c_definition(file) == [artifact |-> "defn", probes |-> AbiParams(file)]

\* the header `dtrace -h` writes for a provider file
DtraceHeader(file) == [artifact |-> "header", probes |-> AbiParams(file)]

----------------------------------------------------------------------------
(* The usdt tool: main, print_build_script, print_formatted_output *)

ToolRuns == 1..NumRuns

\* Cmd, as structopt accepts it
Cmds == [cmd : {"buildgen"}, opt : {"file", "stdout"}]
            \cup [cmd : {"fmt"}, opt : {"rust", "decl", "defn"}]

\* the canonical path of the provider file and the names derived from it
SourceFilename == "/crate/provider.d"
SourceBasename == "provider"

NoCSource == [comment |-> "", include |-> "", defn |-> [artifact |-> "", probes |-> <<>>]]
NoBody == [source_filename |-> "", header_name |-> "", source_name |-> "",
           d_object_name |-> "", c_object_name |-> "", lib_name |-> "",
           c_source |-> NoCSource]

\* a text holding a build script: how it is laid out and what it says
ScriptText(layout, body) == [layout |-> layout, body |-> body]
NoScript == ScriptText("absent", NoBody)
\* a build.rs left by an earlier generation
StaleScript == ScriptText("stale", NoBody)

\* the values print_build_script interpolates into the quoted script
ScriptBody(file) ==
    [source_filename |-> SourceFilename,
     header_name     |-> "provider.h",
     source_name     |-> "provider-wrapper.c",
     d_object_name   |-> "provider.o",
     c_object_name   |-> "provider-wrapper.o",
     lib_name        |-> SourceBasename,
     c_source        |-> [comment |-> SourceFilename,
                          include |-> "provider.h",
                          defn    |-> to_c_definition(file)]]

Panic(r) ==
    /\ tpc' = [tpc EXCEPT ![r] = "panicked"]
    /\ exitStatus' = [exitStatus EXCEPT ![r] = 101]

\* fn main: dispatch on the command
Main(r) ==
    /\ tpc[r] = "main"
    /\ tpc' = [tpc EXCEPT ![r] =
                 IF args.cmd = "buildgen" THEN "canonicalize" ELSE "fmt"]
    /\ UNCHANGED <<providerFile, args, buildrs0, dfile, tscript, rustfmt, stdout,
                   buildrs, exitStatus, buildVars, checkVars>>

\* source.canonicalize().expect(..)
Canonicalize(r) ==
    /\ tpc[r] = "canonicalize"
    /\ IF providerFile.exists
         THEN /\ tpc' = [tpc EXCEPT ![r] = "parse"]
              /\ UNCHANGED exitStatus
         ELSE Panic(r)
    /\ UNCHANGED <<providerFile, args, buildrs0, dfile, tscript, rustfmt, stdout,
                   buildrs, buildVars, checkVars>>

\* a parse that falls back to an empty File instead of failing
ParseProvider_Lenient(r) ==
    /\ tpc[r] = "parse"
    /\ dfile' = [dfile EXCEPT ![r] = [ok |-> TRUE, err |-> "", file |-> <<>>]]
    /\ tpc' = [tpc EXCEPT ![r] = "quote"]
    /\ UNCHANGED <<providerFile, args, buildrs0, tscript, rustfmt, stdout,
                   buildrs, exitStatus, buildVars, checkVars>>

\* dtrace_parser::File::from_file(&source).unwrap()
ParseProvider(r) ==
    /\ tpc[r] = "parse"
    /\ dfile' = [dfile EXCEPT ![r] = from_file(providerFile)]
    /\ IF from_file(providerFile).ok
         THEN /\ tpc' = [tpc EXCEPT ![r] = "quote"]
              /\ UNCHANGED exitStatus
         ELSE Panic(r)
    /\ UNCHANGED <<providerFile, args, buildrs0, tscript, rustfmt, stdout,
                   buildrs, buildVars, checkVars>>

Reverse(seq) == [i \in 1..Len(seq) |-> seq[Len(seq) + 1 - i]]

\* a script whose probes come out in an order that varies from run to run
QuoteScript_Unordered(r) ==
    /\ tpc[r] = "quote"
    /\ \E file \in {dfile[r].file, Reverse(dfile[r].file)} :
          tscript' = [tscript EXCEPT ![r] = ScriptText("tokens", ScriptBody(file))]
    /\ tpc' = [tpc EXCEPT ![r] = "rustfmt"]
    /\ UNCHANGED <<providerFile, args, buildrs0, dfile, rustfmt, stdout,
                   buildrs, exitStatus, buildVars, checkVars>>

\* the file names, c_source and quote! { .. }.to_string()
QuoteScript(r) ==
    /\ tpc[r] = "quote"
    /\ tscript' = [tscript EXCEPT ![r] = ScriptText("tokens", ScriptBody(dfile[r].file))]
    /\ tpc' = [tpc EXCEPT ![r] = "rustfmt"]
    /\ UNCHANGED <<providerFile, args, buildrs0, dfile, rustfmt, stdout,
                   buildrs, exitStatus, buildVars, checkVars>>

\* what the rustfmt child can do: not start, format its input, start and exit
\* with an error leaving nothing on its standard output, or go away before its
\* input is written
RustfmtOutcomes == {"nostart", "ok", "failed", "broken_pipe"}

Formatted(text, outcome) ==
    CASE outcome = "nostart" -> text
      [] outcome = "ok"      -> ScriptText("formatted", text.body)
      [] outcome = "failed"  -> ScriptText("empty", NoBody)

\* Command::new("rustfmt")..spawn() and the `if let Ok(mut fmt)`
Rustfmt(r) ==
    /\ tpc[r] = "rustfmt"
    /\ \E outcome \in RustfmtOutcomes :
          /\ rustfmt' = [rustfmt EXCEPT ![r] = outcome]
          /\ IF outcome = "broken_pipe"
               THEN \* .write(..).expect("Could not write rustfmt input")
                    /\ Panic(r)
                    /\ UNCHANGED tscript
               ELSE /\ tscript' = [tscript EXCEPT ![r] = Formatted(tscript[r], outcome)]
                    /\ tpc' = [tpc EXCEPT ![r] = "emit"]
                    /\ UNCHANGED exitStatus
    /\ UNCHANGED <<providerFile, args, buildrs0, dfile, stdout,
                   buildrs, buildVars, checkVars>>

\* an emit step that always prints, and writes the file too when asked
EmitScript_Both(r) ==
    /\ tpc[r] = "emit"
    /\ stdout' = [stdout EXCEPT ![r] = Append(stdout[r], tscript[r])]
    /\ buildrs' = [buildrs EXCEPT ![r] = IF args.opt = "file" THEN tscript[r] ELSE @]
    /\ tpc' = [tpc EXCEPT ![r] = "done"]
    /\ exitStatus' = [exitStatus EXCEPT ![r] = 0]
    /\ UNCHANGED <<providerFile, args, buildrs0, dfile, tscript, rustfmt,
                   buildVars, checkVars>>

\* if emit == "file" { fs::write("build.rs", script).expect(..) } else { println! }
EmitScript(r) ==
    /\ tpc[r] = "emit"
    /\ IF args.opt = "file"
         THEN \/ /\ buildrs' = [buildrs EXCEPT ![r] = tscript[r]]
                 /\ tpc' = [tpc EXCEPT ![r] = "done"]
                 /\ exitStatus' = [exitStatus EXCEPT ![r] = 0]
                 /\ UNCHANGED stdout
              \/ \* the write fails
                 /\ Panic(r)
                 /\ UNCHANGED <<buildrs, stdout>>
         ELSE /\ stdout' = [stdout EXCEPT ![r] = Append(stdout[r], tscript[r])]
              /\ tpc' = [tpc EXCEPT ![r] = "done"]
              /\ exitStatus' = [exitStatus EXCEPT ![r] = 0]
              /\ UNCHANGED buildrs
    /\ UNCHANGED <<providerFile, args, buildrs0, dfile, tscript, rustfmt,
                   buildVars, checkVars>>

\* the match on `format`
FormatArtifact(format, file) ==
    CASE format = "rust" -> to_rust_impl(file)
      [] format = "decl" -> to_c_declaration(file)
      [] format = "defn" -> to_c_definition(file)

\* a match with the two C arms exchanged
print_formatted_output_Swapped(r) ==
    /\ tpc[r] = "fmt"
    /\ dfile' = [dfile EXCEPT ![r] = from_file(providerFile)]
    /\ IF from_file(providerFile).ok
         THEN /\ stdout' = [stdout EXCEPT ![r] = Append(stdout[r],
                    FormatArtifact(CASE args.opt = "decl" -> "defn"
                                     [] args.opt = "defn" -> "decl"
                                     [] OTHER -> args.opt,
                                   from_file(providerFile).file))]
              /\ tpc' = [tpc EXCEPT ![r] = "done"]
              /\ exitStatus' = [exitStatus EXCEPT ![r] = 0]
         ELSE /\ Panic(r)
              /\ UNCHANGED stdout
    /\ UNCHANGED <<providerFile, args, buildrs0, tscript, rustfmt,
                   buildrs, buildVars, checkVars>>

\* fn print_formatted_output
print_formatted_output(r) ==
    /\ tpc[r] = "fmt"
    /\ dfile' = [dfile EXCEPT ![r] = from_file(providerFile)]
    /\ IF from_file(providerFile).ok
         THEN /\ stdout' = [stdout EXCEPT ![r] = Append(stdout[r],
                    FormatArtifact(args.opt, from_file(providerFile).file))]
              /\ tpc' = [tpc EXCEPT ![r] = "done"]
              /\ exitStatus' = [exitStatus EXCEPT ![r] = 0]
         ELSE /\ Panic(r)
              /\ UNCHANGED stdout
    /\ UNCHANGED <<providerFile, args, buildrs0, tscript, rustfmt,
                   buildrs, buildVars, checkVars>>

----------------------------------------------------------------------------
(* The generated build script: fn main of the quoted build.rs *)

\* files of OUT_DIR; `run` is the run of the script that wrote the file
NoHeader == [exists |-> FALSE, content |-> DtraceHeader(<<>>), run |-> 0]
NoWrapper == [exists |-> FALSE, content |-> NoCSource, run |-> 0]
\* state: "absent", "compiled", "rewriting" (dtrace -G is replacing the probe
\* calls by NOPs), "rewritten"
NoCObject == [state |-> "absent", src |-> NoCSource, hdr |-> DtraceHeader(<<>>)]
NoDObject == [exists |-> FALSE, run |-> 0]
NoLib == [exists |-> FALSE, c_state |-> "absent", d_run |-> 0, run |-> 0]

\* the numbers of the build steps
StepHeader == 1
StepWrite == 2
StepCompile == 3
StepDtraceG == 4
StepArchive == 5

ScriptPanic(step) ==
    /\ pc' = "panicked"
    /\ failures' = failures \cup {step}

\* cargo starts the build script (again)
CargoRun ==
    /\ pc \in {"idle", "done", "panicked"}
    /\ runs < MaxRuns
    /\ hchild \notin {"running"}
    /\ gchild \notin {"running", "rewriting"}
    /\ runs' = runs + 1
    /\ pc' = "header"
    /\ initiated' = <<>>
    /\ failures' = {}
    /\ hchild' = "none"
    /\ gchild' = "none"
    /\ cargoOut' = <<>>
    /\ UNCHANGED <<providerFile, toolVars, target, script, header, wrapperSrc,
                   cObject, dObject, lib, checkVars>>

\* the provider file is edited
EditProvider ==
    /\ \E text \in ValidTexts \cup InvalidTexts :
          /\ OnDisk(text) # providerFile
          /\ providerFile' = OnDisk(text)
    /\ UNCHANGED <<toolVars, buildVars, checkVars>>

\* a header step that starts dtrace and goes on without waiting for it
HeaderSpawn_NoWait ==
    /\ pc = "header"
    /\ initiated' = Append(initiated, StepHeader)
    /\ hchild' = "running"
    /\ pc' = "write"
    /\ UNCHANGED <<providerFile, toolVars, target, script, runs, failures, gchild,
                   header, wrapperSrc, cObject, dObject, lib, cargoOut, checkVars>>

\* Command::new("dtrace").arg("-h")...output(): the child is started
HeaderSpawn ==
    /\ pc = "header"
    /\ initiated' = Append(initiated, StepHeader)
    /\ \/ /\ hchild' = "running"
          /\ pc' = "header_wait"
          /\ UNCHANGED failures
       \/ \* dtrace cannot be started: output() is Err and expect panics
          /\ ScriptPanic(StepHeader)
          /\ UNCHANGED hchild
    /\ UNCHANGED <<providerFile, toolVars, target, script, runs, gchild,
                   header, wrapperSrc, cObject, dObject, lib, cargoOut, checkVars>>

\* the dtrace -h process: writes the header from the provider file as it is
\* now, or exits unsuccessfully
HeaderChildExit ==
    /\ hchild = "running"
    /\ \/ /\ from_file(providerFile).ok
          /\ header' = [exists |-> TRUE,
                        content |-> DtraceHeader(from_file(providerFile).file),
                        run |-> runs]
          /\ hchild' = "exited_ok"
          /\ UNCHANGED failures
       \/ /\ hchild' = "exited_fail"
          /\ failures' = failures \cup {StepHeader}
          /\ UNCHANGED header
    /\ UNCHANGED <<providerFile, toolVars, target, script, pc, runs, initiated, gchild,
                   wrapperSrc, cObject, dObject, lib, cargoOut, checkVars>>

\* output() returns once the child has exited; its exit status is not looked at
HeaderWait ==
    /\ pc = "header_wait"
    /\ hchild \in {"exited_ok", "exited_fail"}
    /\ pc' = "write"
    /\ UNCHANGED <<providerFile, toolVars, target, script, runs, initiated, failures,
                   hchild, gchild, header, wrapperSrc, cObject, dObject, lib,
                   cargoOut, checkVars>>

\* fs::write(&source_path, #c_source).expect(..)
WriteWrapper ==
    /\ pc = "write"
    /\ initiated' = Append(initiated, StepWrite)
    /\ \/ /\ wrapperSrc' = [exists |-> TRUE, content |-> script.c_source, run |-> runs]
          /\ pc' = "compile"
          /\ UNCHANGED failures
       \/ /\ ScriptPanic(StepWrite)
          /\ UNCHANGED wrapperSrc
    /\ UNCHANGED <<providerFile, toolVars, target, script, runs, hchild, gchild,
                   header, cObject, dObject, lib, cargoOut, checkVars>>

\* cc::Build::new()...file(&source_path).include(&out_dir).compile(..)
CompileWrapper ==
    /\ pc = "compile"
    /\ initiated' = Append(initiated, StepCompile)
    /\ \/ \* the wrapper includes the header, so the header has to exist
          /\ header.exists
          /\ cObject' = [state |-> "compiled", src |-> wrapperSrc.content,
                         hdr |-> header.content]
          /\ pc' = IF target = "macos" THEN "archive" ELSE "dtraceG"
          /\ UNCHANGED failures
       \/ \* the compiler fails: compile() ends the process
          /\ ScriptPanic(StepCompile)
          /\ UNCHANGED cObject
    /\ UNCHANGED <<providerFile, toolVars, target, script, runs, hchild, gchild,
                   header, wrapperSrc, dObject, lib, cargoOut, checkVars>>

\* #[cfg(not(target_os = "macos"))] Command::new("dtrace").arg("-G")...spawn()
DtraceGSpawn ==
    /\ pc = "dtraceG"
    /\ target # "macos"
    /\ initiated' = Append(initiated, StepDtraceG)
    /\ \/ /\ gchild' = "running"
          /\ pc' = "archive"
          /\ UNCHANGED failures
       \/ /\ ScriptPanic(StepDtraceG)
          /\ UNCHANGED gchild
    /\ UNCHANGED <<providerFile, toolVars, target, script, runs, hchild,
                   header, wrapperSrc, cObject, dObject, lib, cargoOut, checkVars>>

\* the dtrace -G process starts to replace the probe calls of the wrapper object
DtraceGRewrite ==
    /\ gchild = "running"
    /\ cObject.state = "compiled"
    /\ from_file(providerFile).ok
    /\ gchild' = "rewriting"
    /\ cObject' = [cObject EXCEPT !.state = "rewriting"]
    /\ UNCHANGED <<providerFile, toolVars, target, script, pc, runs, initiated, failures,
                   hchild, header, wrapperSrc, dObject, lib, cargoOut, checkVars>>

\* the dtrace -G process finishes: the wrapper object is rewritten and the
\* instrumented object exists
DtraceGExit ==
    /\ gchild = "rewriting"
    /\ gchild' = "exited_ok"
    /\ cObject' = [cObject EXCEPT !.state = "rewritten"]
    /\ dObject' = [exists |-> TRUE, run |-> runs]
    /\ UNCHANGED <<providerFile, toolVars, target, script, pc, runs, initiated, failures,
                   hchild, header, wrapperSrc, lib, cargoOut, checkVars>>

\* the dtrace -G process exits unsuccessfully before touching anything
DtraceGFail ==
    /\ gchild = "running"
    /\ gchild' = "exited_fail"
    /\ failures' = failures \cup {StepDtraceG}
    /\ UNCHANGED <<providerFile, toolVars, target, script, pc, runs, initiated,
                   hchild, header, wrapperSrc, cObject, dObject, lib, cargoOut, checkVars>>

\* cc::Build::new().object(&c_object_path)[.object(&d_object_path)].compile(#lib_name)
Archive ==
    /\ pc = "archive"
    /\ initiated' = Append(initiated, StepArchive)
    /\ \/ \* the archiver reads the objects as they are now
          /\ target = "macos" \/ dObject.exists
          /\ lib' = [exists |-> TRUE, c_state |-> cObject.state,
                     d_run |-> IF target = "macos" THEN 0 ELSE dObject.run,
                     run |-> runs]
          /\ pc' = "notify"
          /\ UNCHANGED failures
       \/ \* an object is missing or the archiver fails
          /\ ScriptPanic(StepArchive)
          /\ UNCHANGED lib
    /\ UNCHANGED <<providerFile, toolVars, target, script, runs, hchild, gchild,
                   header, wrapperSrc, cObject, dObject, cargoOut, checkVars>>

\* println!("cargo:rerun-if-changed={}", #source_filename) and the return of main
Notify ==
    /\ pc = "notify"
    /\ cargoOut' = Append(cargoOut, <<"cargo:rerun-if-changed", script.source_filename>>)
    /\ pc' = "done"
    /\ UNCHANGED <<providerFile, toolVars, target, script, runs, initiated, failures,
                   hchild, gchild, header, wrapperSrc, cObject, dObject, lib, checkVars>>

----------------------------------------------------------------------------
(* A probe call site: my_provider::my_probe!(|| ..) against fn my_probe(..) *)

HostTypes == {"u8", "u16", "&str"}

SeqsUpTo(S, n) == UNION {[1..k -> S] : k \in 0..n}

\* fn my_probe() {} of the test's provider
TestSignature == <<>>
\* || "This should fail"
TestThunk == <<"&str">>

\* rule 2: identical, or legally widenable
Assignable(actual, expected) ==
    actual = expected \/ (actual = "u8" /\ expected = "u16")

Unchecked == [kind |-> "Unchecked", expected |-> 0, actual |-> 0]

\* a checker that compares the types of the positions both sides have and
\* never the lengths
CheckCallSite_NoArity(sig, supplied) ==
    IF \E i \in 1..Len(sig) : i <= Len(supplied) /\ ~Assignable(supplied[i], sig[i])
    THEN [kind |-> "TypeMismatch", expected |-> Len(sig), actual |-> Len(supplied)]
    ELSE [kind |-> "Accepted", expected |-> Len(sig), actual |-> Len(supplied)]

\* the Invocation Type-Checker: arity first, then the type of each position
CheckCallSite(sig, supplied) ==
    IF Len(supplied) # Len(sig)
    THEN [kind |-> "ArityMismatch", expected |-> Len(sig), actual |-> Len(supplied)]
    ELSE IF \E i \in 1..Len(sig) : ~Assignable(supplied[i], sig[i])
    THEN [kind |-> "TypeMismatch", expected |-> Len(sig), actual |-> Len(supplied)]
    ELSE [kind |-> "Accepted", expected |-> Len(sig), actual |-> Len(supplied)]

\* the host compiler expands and checks the call site
CompileCallSite ==
    /\ verdict.kind = "Unchecked"
    /\ verdict' = CheckCallSite(signature, thunk)
    /\ UNCHANGED <<providerFile, toolVars, buildVars, signature, thunk, fired>>

\* the compiled program runs and the probe's instrumented code executes; a
\* program whose call site was rejected does not exist
FireProbe ==
    /\ verdict.kind = "Accepted"
    /\ ~fired
    /\ fired' = TRUE
    /\ UNCHANGED <<providerFile, toolVars, buildVars, signature, thunk, verdict>>

----------------------------------------------------------------------------
(* Specifications *)

ToolIdle ==
    /\ tpc = [r \in ToolRuns |-> "main"]
    /\ dfile = [r \in ToolRuns |-> [ok |-> FALSE, err |-> "Unparsed", file |-> <<>>]]
    /\ tscript = [r \in ToolRuns |-> NoScript]
    /\ rustfmt = [r \in ToolRuns |-> "notrun"]
    /\ stdout = [r \in ToolRuns |-> <<>>]
    /\ buildrs = [r \in ToolRuns |-> buildrs0]
    /\ exitStatus = [r \in ToolRuns |-> -1]

BuildIdle ==
    /\ pc = "idle"
    /\ runs = 0
    /\ initiated = <<>>
    /\ failures = {}
    /\ hchild = "none"
    /\ gchild = "none"
    /\ header = NoHeader
    /\ wrapperSrc = NoWrapper
    /\ cObject = NoCObject
    /\ dObject = NoDObject
    /\ lib = NoLib
    /\ cargoOut = <<>>

CheckIdle ==
    /\ signature = <<>>
    /\ thunk = <<>>
    /\ verdict = Unchecked
    /\ fired = FALSE

\* the tool: NumRuns runs of one command line on one provider file
InitTool ==
    /\ providerFile \in {NoFile} \cup {OnDisk(t) : t \in ValidTexts \cup InvalidTexts}
    /\ args \in Cmds
    /\ buildrs0 \in {NoScript, StaleScript}
    /\ ToolIdle
    /\ target = "linux"
    /\ script = NoBody
    /\ BuildIdle
    /\ CheckIdle

NextTool ==
    \E r \in ToolRuns :
        \/ Main(r)
        \/ Canonicalize(r)
        \/ ParseProvider(r)
        \/ QuoteScript(r)
        \/ Rustfmt(r)
        \/ EmitScript(r)
        \/ print_formatted_output(r)

SpecTool == InitTool /\ [][NextTool]_vars

\* the build script buildgen generated from a provider file, started by cargo
\* while the provider file is edited
InitBuild ==
    /\ providerFile \in {OnDisk(t) : t \in ValidTexts}
    /\ args = [cmd |-> "buildgen", opt |-> "file"]
    /\ buildrs0 = NoScript
    /\ ToolIdle
    /\ target \in {"linux", "macos"}
    /\ script = ScriptBody(from_file(providerFile).file)
    /\ BuildIdle
    /\ CheckIdle

NextBuild ==
    \/ CargoRun
    \/ EditProvider
    \/ HeaderSpawn
    \/ HeaderChildExit
    \/ HeaderWait
    \/ WriteWrapper
    \/ CompileWrapper
    \/ DtraceGSpawn
    \/ DtraceGRewrite
    \/ DtraceGExit
    \/ DtraceGFail
    \/ Archive
    \/ Notify

SpecBuild == InitBuild /\ [][NextBuild]_vars

\* one call site checked against one probe signature
InitCheck ==
    /\ providerFile = NoFile
    /\ args = [cmd |-> "fmt", opt |-> "rust"]
    /\ buildrs0 = NoScript
    /\ ToolIdle
    /\ target = "linux"
    /\ script = NoBody
    /\ BuildIdle
    /\ signature \in SeqsUpTo(HostTypes, MaxArgs)
    /\ thunk \in SeqsUpTo(HostTypes, MaxArgs)
    /\ verdict = Unchecked
    /\ fired = FALSE

NextCheck ==
    \/ CompileCallSite
    \/ FireProbe

SpecCheck == InitCheck /\ [][NextCheck]_vars

Init == InitTool
Next == NextTool
Spec == SpecTool

----------------------------------------------------------------------------
(* Claims *)

Range(seq) == {seq[i] : i \in 1..Len(seq)}
IsPrefix(s, t) == Len(s) <= Len(t) /\ \A i \in 1..Len(s) : s[i] = t[i]

ExpectedOrder ==
    IF target = "macos"
    THEN <<StepHeader, StepWrite, StepCompile, StepArchive>>
    ELSE <<StepHeader, StepWrite, StepCompile, StepDtraceG, StepArchive>>

\* C1: in every run of the build script the steps are initiated in the order
\* header, write, compile, dtrace -G (not on macOS), archive, none before all
\* the earlier ones, and the write and the compilation only after the
\* dtrace -h child has returned.
C1_FixedOrder ==
    /\ IsPrefix(initiated, ExpectedOrder)
    /\ (StepWrite \in Range(initiated) \/ StepCompile \in Range(initiated))
          => hchild \in {"exited_ok", "exited_fail"}

C1_Witness ==
    /\ pc = "done"
    /\ target = "linux"
    /\ initiated = <<StepHeader, StepWrite, StepCompile, StepDtraceG, StepArchive>>

\* C2: on a non-macOS target, once the archive step has started the dtrace -G
\* process has finished.
C2_ArchiveAfterDtraceG ==
    (target # "macos" /\ StepArchive \in Range(initiated))
        => gchild \in {"exited_ok", "exited_fail"}

\* C3: when the provider file does not parse, a finished run has a non-zero
\* exit status, has printed nothing and has left build.rs as it was; and
\* whatever is emitted is emitted after a successful parse.
C3_ParseFailureEmitsNothing ==
    \A r \in ToolRuns :
        /\ ~from_file(providerFile).ok
              => /\ tpc[r] \notin {"quote", "rustfmt", "emit", "done"}
                 /\ stdout[r] = <<>>
                 /\ buildrs[r] = buildrs0
                 /\ tpc[r] = "panicked" => exitStatus[r] \notin {-1, 0}
        /\ (stdout[r] # <<>> \/ buildrs[r] # buildrs0) => dfile[r].ok

C3_Witness ==
    \E r \in ToolRuns :
        /\ args.cmd = "buildgen"
        /\ buildrs0 = StaleScript
        /\ providerFile = OnDisk(TextDuplicate)
        /\ tpc[r] = "panicked"
        /\ dfile[r].err = "DuplicateName"

\* C4: a call site is accepted, and the probe's code can execute, only if the
\* thunk's tuple has as many elements as the probe declares arguments; for a
\* zero-argument probe every non-empty thunk result is an ArityMismatch.
C4_ArityExact ==
    /\ verdict.kind = "Accepted" => Len(thunk) = Len(signature)
    /\ fired => Len(thunk) = Len(signature)
    /\ (verdict.kind # "Unchecked" /\ signature = <<>> /\ thunk # <<>>)
          => /\ verdict.kind = "ArityMismatch"
             /\ verdict.expected = 0
             /\ verdict.actual = Len(thunk)
             /\ ~fired

C4_Witness ==
    /\ signature = TestSignature
    /\ thunk = TestThunk
    /\ verdict.kind = "ArityMismatch"

C6_FmtOneArtifact ==
    \A r \in ToolRuns :
        args.cmd = "fmt" =>
            /\ Len(stdout[r]) <= 1
            /\ buildrs[r] = buildrs0
            /\ from_file(providerFile).ok => tpc[r] # "panicked"
            /\ tpc[r] = "done" =>
                  /\ args.opt = "rust"
                        => stdout[r] = <<to_rust_impl(from_file(providerFile).file)>>
                  /\ args.opt = "decl"
                        => stdout[r] = <<to_c_declaration(from_file(providerFile).file)>>
                  /\ args.opt = "defn"
                        => stdout[r] = <<to_c_definition(from_file(providerFile).file)>>

C6_Witness ==
    \E r \in ToolRuns :
        /\ args = [cmd |-> "fmt", opt |-> "defn"]
        /\ providerFile = OnDisk(TextOneArg)
        /\ tpc[r] = "done"
        /\ Len(stdout[r]) = 1

\* C7: buildgen with emit = file prints nothing and a finished run has written
\* the script to build.rs; with emit = stdout it leaves build.rs as it was and
\* a finished run has printed the script, once.
C7_OneDestination ==
    \A r \in ToolRuns :
        args.cmd = "buildgen" =>
            /\ args.opt = "file"
                  => /\ stdout[r] = <<>>
                     /\ tpc[r] = "done" => buildrs[r] = tscript[r]
                     /\ tpc[r] # "done" => buildrs[r] = buildrs0
            /\ args.opt = "stdout"
                  => /\ buildrs[r] = buildrs0
                     /\ tpc[r] = "done" => stdout[r] = <<tscript[r]>>
                     /\ tpc[r] # "done" => stdout[r] = <<>>

C7_Witness ==
    /\ args = [cmd |-> "buildgen", opt |-> "stdout"]
    /\ buildrs0 = StaleScript
    /\ tpc[1] = "done"
    /\ stdout[1] = <<tscript[1]>>
    /\ buildrs[1] = StaleScript

\* C8: once a build step has failed no later step is initiated and the script
\* neither reaches the end nor prints its line for cargo.
C8_StopsAtFirstFailure ==
    \A s \in failures :
        /\ \A i \in 1..Len(initiated) : initiated[i] <= s
        /\ pc # "done"
        /\ cargoOut = <<>>

\* C9: the header and the wrapper source a run of the build script has written
\* describe the same probes.
C9_SameContents ==
    (/\ header.exists /\ header.run = runs
     /\ wrapperSrc.exists /\ wrapperSrc.run = runs)
        => header.content.probes = wrapperSrc.content.defn.probes

====
